---- MODULE Spec2Model ----
(***************************************************************************)
(* The appointment SMS reminder subsystem of clinicflow-backend:           *)
(*   appointments/management/commands/send_appointment_reminders.py        *)
(*   appointments/management/commands/test_sms.py                          *)
(*   appointments/services/sms.py                                          *)
(*   appointments/models.py, appointments/serializers.py                   *)
(*                                                                         *)
(* Time is counted in whole hours.  An absolute instant (what the database *)
(* stores and timezone.now() returns) is a number of hours in UTC; a clinic *)
(* wall-clock datetime is a number of hours in Africa/Kinshasa local time.  *)
(* Strings that the code inspects character by character (phone numbers)   *)
(* are sequences of one-character strings.                                  *)
(***************************************************************************)
EXTENDS Integers, Sequences, FiniteSets, TLC

VARIABLES
    now,          \* timezone.now(): the wall clock, an absolute (UTC) hour
    settings,     \* django settings read by the commands
    appts,        \* the Appointment table: row id -> row
    log,          \* the AppointmentSMSLog table, in insertion order
    run,          \* the state of each send_appointment_reminders invocation
    runs_started, \* number of invocations started so far
    sends,        \* history: every call of send_sms made so far
    marked_by,    \* history: appointment id -> the invocations that wrote reminder_sent_at
    api_calls,    \* number of REST update requests received so far
    req,          \* the REST update request being served: the instance it loaded
    test_calls,   \* history: number of send_sms calls made by test_sms
    elig,         \* the argument and result of a direct is_eligible_for_send call
    sms,          \* the arguments and result of a direct send_sms call
    norm          \* the argument and results of direct normalize_phone_drc and mask_phone calls

vars == <<now, settings, appts, log, run, runs_started, sends, marked_by, api_calls, req,
          test_calls, elig, sms, norm>>

-----------------------------------------------------------------------------
(* Bounds of the model *)

MaxDay == 1        \* the clock stops at the end of this local date
MaxAppts == 2      \* rows the Appointment table can hold
MaxLog == 2        \* rows the AppointmentSMSLog table can hold
MaxRuns == 2       \* invocations of send_appointment_reminders
MaxApi == 1        \* REST update requests
MaxTestSms == 1    \* invocations of test_sms
MaxRunHours == 2   \* the longest a run lasts: every send_sms call returns within its timeout
ShortText == 20     \* characters of a short response body or exception text
LongText == 250     \* characters of a long response body or exception text
EligDays == 4      \* local dates the direct is_eligible_for_send calls range over
MaxDigits == 12    \* digits of the longest digit run of a phone text

-----------------------------------------------------------------------------
(* Program constants *)

DayLen == 24       \* hours in timedelta(days=1)
CutoffHour == 17   \* time(17, 0)
UtcOffset == 1     \* Africa/Kinshasa is UTC+1: 16:00 UTC = 17:00 local
DefaultMaxCap == 200
SnippetMax == 200     \* [:200]

\* A nullable DateTimeField holds NULL or Some(t).
NULL == <<>>
Some(t) == <<t>>
None == "None"

ELIGIBLE_STATUSES == {"CONFIRMED", "RESCHEDULED"}

STATUS_CHOICES ==
    {"SCHEDULED", "CONFIRMED", "CANCELLED", "COMPLETED", "NO_SHOW", "RESCHEDULED"}

\* The statuses for which Appointment.clean refuses a past scheduled_at.
CleanStatuses == {"SCHEDULED", "CONFIRMED", "RESCHEDULED"}

-----------------------------------------------------------------------------
(* Datetime arithmetic *)

\* dt.astimezone(clinic_tz): the local wall-clock reading of an absolute instant.
astimezone(t) == t + UtcOffset

\* dt.astimezone(dt_timezone.utc): the absolute instant of a local wall-clock reading.
to_utc(l) == l - UtcOffset

\* dt.date() of a local wall-clock reading.
DateOf(l) == l \div DayLen

\* dt.hour of a local wall-clock reading.
HourOf(l) == l % DayLen

\* datetime.combine(date, time(hour, 0), tzinfo=clinic_tz)
Combine(d, h) == d * DayLen + h

\* time.min and time.max: the first and the last representable time of a day.
TimeMin == 0
TimeMax == DayLen - 1

-----------------------------------------------------------------------------
(* is_eligible_for_send *)

Verdict(e, reason) == [eligible |-> e, reason |-> reason]

\* Mutant: the cutoff test excludes 17:00 itself.
is_eligible_for_send_late(scheduled_at, now_local) ==
    LET appt_local == astimezone(scheduled_at)
        day_before == DateOf(appt_local) - 1
        cutoff     == Combine(day_before, CutoffHour)
    IN  IF now_local <= cutoff
          THEN Verdict(FALSE, "before cutoff (17:00 day before)")
        ELSE IF now_local >= appt_local
          THEN Verdict(FALSE, "appointment time has passed")
        ELSE IF DateOf(now_local) >= DateOf(appt_local)
          THEN Verdict(FALSE, "already appointment day - missed window")
        ELSE IF DateOf(now_local) # day_before
          THEN Verdict(FALSE, "not the day before appointment")
        ELSE Verdict(TRUE, "eligible")

is_eligible_for_send(scheduled_at, now_local) ==
    LET appt_local == astimezone(scheduled_at)
        day_before == DateOf(appt_local) - 1
        cutoff     == Combine(day_before, CutoffHour)
    IN  IF now_local < cutoff
          THEN Verdict(FALSE, "before cutoff (17:00 day before)")
        ELSE IF now_local >= appt_local
          THEN Verdict(FALSE, "appointment time has passed")
        ELSE IF DateOf(now_local) >= DateOf(appt_local)
          THEN Verdict(FALSE, "already appointment day - missed window")
        ELSE IF DateOf(now_local) # day_before
          THEN Verdict(FALSE, "not the day before appointment")
        ELSE Verdict(TRUE, "eligible")

-----------------------------------------------------------------------------
(* appointments/services/sms.py *)

Digits == {"0", "1", "2", "3", "4", "5", "6", "7", "8", "9"}
Whitespace == {" ", "\t"}

\* A Python string given as its characters, e.g. Str(<<"0", "8">>) = "08".
RECURSIVE Str(_)
Str(cs) ==
    IF cs = <<>> THEN ""
    ELSE IF Len(cs) = 1 THEN cs[1]
    ELSE Str(SubSeq(cs, 1, Len(cs) \div 2)) \o Str(SubSeq(cs, Len(cs) \div 2 + 1, Len(cs)))

\* s[:n]
Prefix(s, n) == SubSeq(s, 1, IF n < Len(s) THEN n ELSE Len(s))

\* s[n:]
DropFirst(s, n) == SubSeq(s, n + 1, Len(s))

\* s[-n:]
Suffix(s, n) == SubSeq(s, IF Len(s) > n THEN Len(s) - n + 1 ELSE 1, Len(s))

\* s.startswith(p)
StartsWith(s, p) == Len(s) >= Len(p) /\ SubSeq(s, 1, Len(p)) = p

\* "*" * n
RECURSIVE Stars(_)
Stars(n) == IF n <= 0 THEN <<>> ELSE <<"*">> \o Stars(n - 1)

RECURSIVE LStrip(_)
LStrip(s) == IF s # <<>> /\ Head(s) \in Whitespace THEN LStrip(Tail(s)) ELSE s

RECURSIVE RStrip(_)
RStrip(s) ==
    IF s # <<>> /\ s[Len(s)] \in Whitespace THEN RStrip(SubSeq(s, 1, Len(s) - 1)) ELSE s

\* str.strip()
Strip(s) == RStrip(LStrip(s))

DigitsOnlySub_keep_dashes(s) == SelectSeq(s, LAMBDA c : c \in Digits \cup {"+", "-"})

\* _DIGITS_ONLY.sub("", s) with _DIGITS_ONLY = [^\d+]: keeps digits and every '+'.
DigitsOnlySub(s) == SelectSeq(s, LAMBDA c : c \in Digits \cup {"+"})

E164Match_any_length(s) ==
    /\ Len(s) >= 2
    /\ s[1] = "+"
    /\ \A i \in 2..Len(s) : s[i] \in Digits

\* _E164_PATTERN.match(s) with _E164_PATTERN = ^\+\d{8,15}$
E164Match(s) ==
    /\ Len(s) >= 9
    /\ Len(s) <= 16
    /\ s[1] = "+"
    /\ \A i \in 2..Len(s) : s[i] \in Digits

DRC_COUNTRY_CODE == <<"+", "2", "4", "3">>

normalize_phone_drc_any_length(raw) ==
    IF raw = None \/ raw = <<>> THEN None
    ELSE
    LET stripped == DigitsOnlySub(Strip(raw))
        phone ==
            IF StartsWith(stripped, <<"+", "2", "4", "3">>) THEN stripped
            ELSE IF StartsWith(stripped, <<"2", "4", "3">>)
              THEN <<"+">> \o stripped
            ELSE IF StartsWith(stripped, <<"0">>) /\ Len(stripped) >= 9
              THEN DRC_COUNTRY_CODE \o DropFirst(stripped, 1)
            ELSE IF Len(stripped) >= 9 /\ ~StartsWith(stripped, <<"+">>)
              THEN DRC_COUNTRY_CODE \o stripped
            ELSE stripped
        plus == IF ~StartsWith(phone, <<"+">>) THEN <<"+">> \o phone ELSE phone
    IN  IF E164Match(plus) THEN plus ELSE None

normalize_phone_drc(raw) ==
    IF raw = None \/ raw = <<>> THEN None
    ELSE
    LET stripped == DigitsOnlySub(Strip(raw))
        phone ==
            IF StartsWith(stripped, <<"+", "2", "4", "3">>) THEN stripped
            ELSE IF StartsWith(stripped, <<"2", "4", "3">>) /\ Len(stripped) >= 12
              THEN <<"+">> \o stripped
            ELSE IF StartsWith(stripped, <<"0">>) /\ Len(stripped) >= 9
              THEN DRC_COUNTRY_CODE \o DropFirst(stripped, 1)
            ELSE IF Len(stripped) >= 9 /\ ~StartsWith(stripped, <<"+">>)
              THEN DRC_COUNTRY_CODE \o stripped
            ELSE stripped
        plus == IF ~StartsWith(phone, <<"+">>) THEN <<"+">> \o phone ELSE phone
    IN  IF E164Match(plus) THEN plus ELSE None

mask_phone(phone) ==
    IF phone = None \/ phone = <<>> \/ Len(phone) <= 7 THEN <<"*", "*", "*">>
    ELSE Prefix(phone, 5) \o Stars(Len(phone) - 8) \o Suffix(phone, 3)

\* What http_requests.post can do: raise (exc is str(exc), as characters), or
\* return a response.  A response has a status code, a body text (as characters)
\* that is JSON or not, and the Recipients list of the parsed body (each recipient
\* a status and a messageId), or Unexpected when the parsed body has another shape.
HttpRaise(text) == [raises |-> TRUE, exc |-> text]

HttpResponse(code, is_json, recipients, text) ==
    [raises |-> FALSE, status_code |-> code, is_json |-> is_json,
     recipients |-> recipients, text |-> text]

Unexpected == <<[shape |-> "unexpected"]>>

\* What interpreting a body of another shape raises, as str(exc).
ShapeError == <<"A", "t", "t", "r", "i", "b", "u", "t", "e", "E", "r", "r", "o", "r">>

\* len(status) of the recipient statuses the provider answers with.
StatusLen(status) ==
    CASE status = "Success" -> 7
      [] status = "InsufficientBalance" -> 19
      [] status = "InvalidPhoneNumber" -> 18

\* Mutant: the body is quoted whole.
Snippet_untruncated(text) ==
    IF text = <<>> THEN <<"(", "e", "m", "p", "t", "y", ")">> ELSE text

\* resp.text[:200] if resp.text else "(empty)"
Snippet(text) ==
    IF text = <<>> THEN <<"(", "e", "m", "p", "t", "y", ")">> ELSE Prefix(text, SnippetMax)

\* error_len is len(error), 0 when error is None; posted tells whether
\* http_requests.post was called.
SmsResult(ok, message_id, error, error_len, phone_normalised, posted) ==
    [ok |-> ok, provider |-> "africastalking", message_id |-> message_id,
     error |-> error, error_len |-> error_len, phone_normalised |-> phone_normalised,
     posted |-> posted]

\* Mutant: only the username is required.
Configured_username_only(conf) == conf.username

\* not (not username or not api_key)
Configured(conf) == conf.username /\ conf.api_key

\* Mutant: only 5xx answers count as HTTP errors.
HttpFailed_server_errors_only(status_code) == status_code >= 500

\* resp.status_code >= 400
HttpFailed(status_code) == status_code >= 400

send_sms(phone_number, conf, http) ==
    LET normalised == normalize_phone_drc(phone_number)
    IN  IF normalised = None
          THEN SmsResult(FALSE, None,
                         "Invalid phone number: " \o Str(mask_phone(phone_number)),
                         22 + Len(mask_phone(phone_number)),
                         None, FALSE)
        ELSE IF ~Configured(conf)
          THEN SmsResult(FALSE, None, "SMS provider not configured", 27, normalised, FALSE)
        ELSE IF http.raises
          THEN SmsResult(FALSE, None, Str(Prefix(http.exc, SnippetMax)),
                         Len(Prefix(http.exc, SnippetMax)), normalised, TRUE)
        ELSE IF HttpFailed(http.status_code)
          THEN SmsResult(FALSE, None,
                         "HTTP " \o ToString(http.status_code) \o ": " \o Str(Snippet(http.text)),
                         10 + Len(Snippet(http.text)), normalised, TRUE)
        ELSE IF ~http.is_json
          THEN SmsResult(FALSE, None,
                         "Invalid JSON from provider: " \o Str(Snippet(http.text)),
                         28 + Len(Snippet(http.text)), normalised, TRUE)
        ELSE IF http.recipients = Unexpected
          THEN SmsResult(FALSE, None, Str(Prefix(ShapeError, SnippetMax)),
                         Len(Prefix(ShapeError, SnippetMax)), normalised, TRUE)
        ELSE IF http.recipients = <<>>
          THEN SmsResult(FALSE, None, "No recipients in provider response", 34,
                         normalised, TRUE)
        ELSE IF http.recipients[1].status = "Success"
          THEN SmsResult(TRUE, http.recipients[1].messageId, None, 0, normalised, TRUE)
        ELSE SmsResult(FALSE, None,
                       "Provider status: " \o http.recipients[1].status,
                       17 + StatusLen(http.recipients[1].status),
                       normalised, TRUE)

-----------------------------------------------------------------------------
(* The database and the environment *)

\* patients.Patient rows: the phone of each patient on file.
PatientPhone ==
    [p \in {"alice", "bob", "carl"} |->
        CASE p = "alice" -> <<"+", "2", "4", "3", "8", "1", "2", "3", "4", "5", "6", "7", "8">>
          [] p = "bob"   -> <<>>
          [] p = "carl"  -> <<" ", " ">>]

Patients == DOMAIN PatientPhone

\* The answers of the provider the reminder runs are checked against.
HttpOutcomes ==
    { HttpResponse(200, TRUE, <<[status |-> "Success", messageId |-> "ATXid_123"]>>, <<"{", "}">>),
      HttpResponse(200, TRUE, <<[status |-> "InsufficientBalance", messageId |-> "None"]>>, <<"{", "}">>) }

\* The settings a deployment can run with.  SMS_MAX_REMINDERS_PER_RUN may be unset.
SettingsChoices ==
    { [SMS_MAX_REMINDERS_PER_RUN |-> 1,  username |-> TRUE, api_key |-> TRUE],
      [SMS_MAX_REMINDERS_PER_RUN |-> 2,  username |-> TRUE, api_key |-> TRUE] }

\* getattr(settings, "SMS_MAX_REMINDERS_PER_RUN", 200); -1 stands for "not set".
MaxCapOf(conf) ==
    IF conf.SMS_MAX_REMINDERS_PER_RUN = -1 THEN DefaultMaxCap
    ELSE conf.SMS_MAX_REMINDERS_PER_RUN

\* The local hours at which the clock is read.
ClockHours == {0, 1, 17, 23}

\* The local hours appointments are booked at.
SchedChoices == { to_utc(Combine(1, 0)), to_utc(Combine(1, 10)), to_utc(Combine(2, 10)) }

CreateStatuses == {"CONFIRMED"}
UpdateStatuses == {"RESCHEDULED", "CANCELLED", "SCHEDULED"}

NextInstant(t) ==
    CHOOSE u \in (t + 1)..(t + DayLen) :
        /\ HourOf(astimezone(u)) \in ClockHours
        /\ \A v \in (t + 1)..(u - 1) : HourOf(astimezone(v)) \notin ClockHours

\* Appointment.clean: a SCHEDULED, CONFIRMED or RESCHEDULED appointment cannot be
\* in the past.  TRUE when clean() raises no ValidationError at instant t.
clean(row, t) == ~(row.status \in CleanStatuses /\ row.scheduled_at < t)

Runs == {1, 2}

EndedPcs == {"idle", "empty", "aborted", "done", "crashed"}

NoResult == SmsResult(FALSE, None, None, 0, None, FALSE)

IdleRun ==
    [pc |-> "idle", epoch |-> 0, now_local |-> 0, total_candidates |-> 0,
     candidates |-> <<>>, i |-> 0, sent_count |-> 0, failed_count |-> 0,
     skipped_count |-> 0, result |-> NoResult]

NoReq == <<>>

NoSms ==
    [phone_number |-> <<>>, conf |-> [username |-> TRUE, api_key |-> TRUE],
     http |-> HttpRaise(<<>>), done |-> FALSE, out |-> NoResult]

NoElig == [scheduled_at |-> 0, now_local |-> 0, done |-> FALSE, out |-> Verdict(FALSE, "")]

NoNorm ==
    [head |-> <<>>, body |-> <<>>, sep |-> <<>>, at |-> 0, tail |-> <<>>, raw |-> <<>>,
     normalised |-> FALSE, out |-> None, masked_done |-> FALSE, masked |-> <<>>]

Init ==
    /\ now = to_utc(Combine(0, CutoffHour))
    /\ settings \in SettingsChoices
    /\ appts = <<>>
    /\ log = <<>>
    /\ run = [r \in Runs |-> IdleRun]
    /\ runs_started = 0
    /\ sends = {}
    /\ marked_by = [a \in 1..MaxAppts |-> <<>>]
    /\ api_calls = 0
    /\ req = NoReq
    /\ test_calls = 0
    /\ elig = NoElig
    /\ sms = NoSms
    /\ norm = NoNorm

\* Time passes.  A run in progress ends within MaxRunHours of its start, and a
\* REST request is served within the hour.
Tick ==
    /\ DateOf(astimezone(NextInstant(now))) <= MaxDay
    /\ req = NoReq
    /\ \A r \in Runs :
          run[r].pc \notin EndedPcs =>
              NextInstant(now) - to_utc(run[r].now_local) <= MaxRunHours
    /\ now' = NextInstant(now)
    /\ UNCHANGED <<settings, appts, log, run, runs_started, sends, marked_by, api_calls, req, test_calls, elig, sms, norm>>

\* POST /appointments/: AppointmentSerializer.create, then Appointment.save.
\* reminder_sent_at is read-only and starts as null.
ApiCreate(p, sched, st, en) ==
    LET row == [patient |-> p, scheduled_at |-> sched, status |-> st,
                reminders_enabled |-> en, reminder_sent_at |-> NULL]
    IN  /\ Len(appts) < MaxAppts
        /\ clean(row, now)
        /\ appts' = Append(appts, row)
        /\ UNCHANGED <<now, settings, log, run, runs_started, sends, marked_by, api_calls, req, test_calls, elig, sms, norm>>

\* The bodies of a PATCH request: one writable field and its new value.
Patches ==
    { <<"scheduled_at", sched>> : sched \in SchedChoices } \cup
    { <<"status", st>> : st \in UpdateStatuses } \cup
    { <<"reminders_enabled", en>> : en \in BOOLEAN }

\* PATCH /appointments/<id>/, first half: AppointmentDetailAPIView loads the
\* instance (get_object) and the serializer validates the body.
ApiGetObject(id, patch) ==
    LET instance == [appts[id] EXCEPT ![patch[1]] = patch[2]]
    IN  /\ api_calls < MaxApi
        /\ req = NoReq
        /\ instance # appts[id]
        /\ req' = <<[id |-> id, instance |-> instance]>>
        /\ api_calls' = api_calls + 1
        /\ UNCHANGED <<now, settings, appts, log, run, runs_started, sends, marked_by, test_calls, elig, sms, norm>>

\* PATCH /appointments/<id>/, second half: AppointmentSerializer.update has set the
\* field on the loaded instance and calls Appointment.save, which validates and
\* then writes every column of the row from the instance; a ValidationError
\* becomes a 400 response and nothing is written.
ApiUpdate ==
    /\ req # NoReq
    /\ appts' = IF clean(req[1].instance, now)
                  THEN [appts EXCEPT ![req[1].id] = req[1].instance]
                  ELSE appts
    /\ req' = NoReq
    /\ UNCHANGED <<now, settings, log, run, runs_started, sends, marked_by, api_calls, test_calls, elig, sms, norm>>

-----------------------------------------------------------------------------
(* send_appointment_reminders: Command.handle *)

\* Mutant: the query without reminder_sent_at__isnull=True.
Matches_any_sent(row, now_local) ==
    LET tomorrow_date == DateOf(now_local) + 1
        day_after     == tomorrow_date + 1
        start_utc     == to_utc(Combine(tomorrow_date, TimeMin))
        end_utc       == to_utc(Combine(day_after, TimeMax))
    IN  /\ row.scheduled_at >= start_utc
        /\ row.scheduled_at < end_utc
        /\ row.status \in ELIGIBLE_STATUSES
        /\ row.reminders_enabled = TRUE

\* Mutant: the query without status__in=ELIGIBLE_STATUSES.
Matches_any_status(row, now_local) ==
    LET tomorrow_date == DateOf(now_local) + 1
        day_after     == tomorrow_date + 1
        start_utc     == to_utc(Combine(tomorrow_date, TimeMin))
        end_utc       == to_utc(Combine(day_after, TimeMax))
    IN  /\ row.scheduled_at >= start_utc
        /\ row.scheduled_at < end_utc
        /\ row.reminders_enabled = TRUE
        /\ row.reminder_sent_at = NULL

\* Mutant: the window bounds compared as they read on the clinic's clock, without
\* the conversion to UTC.
Matches_naive_window(row, now_local) ==
    LET tomorrow_date == DateOf(now_local) + 1
        day_after     == tomorrow_date + 1
        window_start  == Combine(tomorrow_date, TimeMin)
        window_end    == Combine(day_after, TimeMax)
    IN  /\ row.scheduled_at >= window_start
        /\ row.scheduled_at < window_end
        /\ row.status \in ELIGIBLE_STATUSES
        /\ row.reminders_enabled = TRUE
        /\ row.reminder_sent_at = NULL

\* The filter of the candidate query, for a run whose local "now" is now_local.
Matches(row, now_local) ==
    LET tomorrow_date == DateOf(now_local) + 1
        day_after     == tomorrow_date + 1
        window_start  == Combine(tomorrow_date, TimeMin)
        window_end    == Combine(day_after, TimeMax)
        start_utc     == to_utc(window_start)
        end_utc       == to_utc(window_end)
    IN  /\ row.scheduled_at >= start_utc
        /\ row.scheduled_at < end_utc
        /\ row.status \in ELIGIBLE_STATUSES
        /\ row.reminders_enabled = TRUE
        /\ row.reminder_sent_at = NULL

CandidateIds(now_local) == { id \in DOMAIN appts : Matches(appts[id], now_local) }

\* The rows of the queryset in the order of Meta.ordering = ["-scheduled_at"];
\* rows with equal scheduled_at come in any order.
Orderings(ids) ==
    { s \in [1..Cardinality(ids) -> ids] :
        /\ \A i, j \in DOMAIN s : i # j => s[i] # s[j]
        /\ \A i, j \in DOMAIN s :
              i < j => appts[s[i]].scheduled_at >= appts[s[j]].scheduled_at }

\* Mutant: a count equal to the cap aborts too.
OverCap_at_cap(total_candidates, max_cap) == total_candidates >= max_cap

\* The cap check: TRUE when the run must abort.
OverCap(total_candidates, max_cap) == total_candidates > max_cap

\* Lines 117-170: read the clock, count the candidates, return at once when there
\* are none, abort when they exceed the cap.  One invocation at a time.
BeginRun(r) ==
    LET now_local == astimezone(now)
        total     == Cardinality(CandidateIds(now_local))
        next_pc   == IF total = 0 THEN "empty"
                     ELSE IF OverCap(total, MaxCapOf(settings)) THEN "aborted"
                     ELSE "fetch"
    IN  /\ run[r].pc \in EndedPcs
        /\ runs_started < MaxRuns
        /\ run' = [run EXCEPT ![r] =
                     [IdleRun EXCEPT !.pc = next_pc, !.epoch = runs_started + 1,
                                     !.now_local = now_local,
                                     !.total_candidates = total]]
        /\ runs_started' = runs_started + 1
        /\ UNCHANGED <<now, settings, appts, log, sends, marked_by, api_calls, req, test_calls, elig, sms, norm>>

StartRun(r) ==
    /\ \A q \in Runs : run[q].pc \in EndedPcs
    /\ r = 1
    /\ BeginRun(r)

\* An invocation that begins whether or not another one is still at work: two
\* schedule triggers, or a trigger and an operator at a shell.
StartOverlapping(r) ==
    /\ run[r].pc \in EndedPcs
    /\ BeginRun(r)

\* Line 179: iterating the queryset runs the query and loads its rows.
Fetch(r) ==
    /\ run[r].pc = "fetch"
    /\ \E order \in Orderings(CandidateIds(run[r].now_local)) :
          run' = [run EXCEPT ![r].pc = "loop", ![r].i = 1,
                     ![r].candidates =
                        [k \in DOMAIN order |-> [id |-> order[k], row |-> appts[order[k]]]]]
    /\ UNCHANGED <<now, settings, appts, log, runs_started, sends, marked_by, api_calls, req, test_calls, elig, sms, norm>>

Current(r) == run[r].candidates[run[r].i]

InLoop(r) == run[r].pc = "loop" /\ run[r].i <= Len(run[r].candidates)

EligibleNow(r) ==
    is_eligible_for_send(Current(r).row.scheduled_at, run[r].now_local).eligible

\* Mutant: the phone is taken without .strip().
PhoneRaw_unstripped(r) == PatientPhone[Current(r).row.patient]

\* phone_raw = (patient.phone or "").strip()
PhoneRaw(r) == Strip(PatientPhone[Current(r).row.patient])

LogRow(appointment, phone, status, message_id, error_message, epoch) ==
    [appointment |-> appointment, phone |-> phone, provider |-> "africastalking",
     status |-> status, message_id |-> message_id, error_message |-> error_message,
     run |-> epoch]      \* history: the invocation that wrote the row

\* Mutant: update_or_create keyed on the appointment, overwriting its earlier row.
LogCreate_update_or_create(rows, row) ==
    IF \E i \in DOMAIN rows : rows[i].appointment = row.appointment
      THEN [i \in DOMAIN rows |->
               IF rows[i].appointment = row.appointment THEN row ELSE rows[i]]
      ELSE Append(rows, row)

\* Mutant: the attempt is logged twice.
LogCreate_twice(rows, row) == Append(Append(rows, row), row)

\* AppointmentSMSLog.objects.create(...): one row is inserted.
LogCreate(rows, row) == Append(rows, row)

\* Lines 183-189: the strict cutoff rejects the candidate.
SkipIneligible(r) ==
    /\ InLoop(r)
    /\ ~EligibleNow(r)
    /\ run' = [run EXCEPT ![r].skipped_count = @ + 1, ![r].i = @ + 1]
    /\ UNCHANGED <<now, settings, appts, log, runs_started, sends, marked_by, api_calls, req, test_calls, elig, sms, norm>>

\* Lines 192-206: the patient has no phone on file.
LogMissingPhone(r) ==
    /\ InLoop(r)
    /\ EligibleNow(r)
    /\ PhoneRaw(r) = <<>>
    /\ Len(log) < MaxLog
    /\ log' = LogCreate(log, LogRow(Current(r).id, <<>>, "FAILED", "",
                                    "Patient phone number is missing", run[r].epoch))
    /\ run' = [run EXCEPT ![r].failed_count = @ + 1, ![r].i = @ + 1]
    /\ UNCHANGED <<now, settings, appts, runs_started, sends, marked_by, api_calls, req, test_calls, elig, sms, norm>>

Sending == { q \in Runs : run[q].pc = "sending" }

\* Lines 209-216: send_sms is called; it blocks until the provider has answered.
SendSms(r, http) ==
    /\ InLoop(r)
    /\ EligibleNow(r)
    /\ PhoneRaw(r) # <<>>
    /\ Len(log) + Cardinality(Sending) < MaxLog
    /\ LET result == send_sms(PhoneRaw(r), settings, http)
       IN  /\ run' = [run EXCEPT ![r].pc = "sending", ![r].result = result]
           /\ sends' = sends \cup
                 { [run |-> run[r].epoch, appt |-> Current(r).id, at |-> now,
                    scheduled_at |-> Current(r).row.scheduled_at,
                    seen_sent_at |-> Current(r).row.reminder_sent_at,
                    posted |-> result.posted, ok |-> result.ok] }
    /\ UNCHANGED <<now, settings, appts, log, runs_started, marked_by, api_calls, req, test_calls, elig, sms, norm>>

\* Appointment.save(update_fields=["reminder_sent_at"]): full_clean() runs clean() on
\* the row held in memory; TRUE when save raises ValidationError at instant t.
SaveRaises(row, t) == ~clean(row, t)

\* Mutant: every attempt is logged as a success.
AttemptStatus_always_success(result) == "SUCCESS"

\* status="SUCCESS" if result["ok"] else "FAILED"
AttemptStatus(result) == IF result.ok THEN "SUCCESS" ELSE "FAILED"

\* Lines 219-236: the attempt is logged; on success reminder_sent_at is written
\* through Appointment.save, whose ValidationError nothing catches.
RecordResult(r) ==
    LET result == run[r].result
        id     == Current(r).id
        row    == LogRow(id,
                         IF result.phone_normalised # None
                           THEN result.phone_normalised ELSE PhoneRaw(r),
                         AttemptStatus(result),
                         IF result.message_id # None THEN result.message_id ELSE "",
                         IF result.error # None THEN result.error ELSE "",
                         run[r].epoch)
    IN  /\ run[r].pc = "sending"
        /\ log' = LogCreate(log, row)
        /\ IF result.ok
             THEN IF SaveRaises(Current(r).row, now)
                    THEN /\ run' = [run EXCEPT ![r].pc = "crashed"]
                         /\ UNCHANGED <<appts, marked_by>>
                    ELSE /\ appts' = [appts EXCEPT ![id].reminder_sent_at = Some(now)]
                         /\ marked_by' = [marked_by EXCEPT ![id] = Append(@, run[r].epoch)]
                         /\ run' = [run EXCEPT ![r].pc = "loop",
                                               ![r].sent_count = @ + 1, ![r].i = @ + 1]
             ELSE /\ run' = [run EXCEPT ![r].pc = "loop",
                                        ![r].failed_count = @ + 1, ![r].i = @ + 1]
                  /\ UNCHANGED <<appts, marked_by>>
        /\ UNCHANGED <<now, settings, runs_started, sends, api_calls, req, test_calls, elig, sms, norm>>

\* Lines 241-252: the summary.
Finish(r) ==
    /\ run[r].pc = "loop"
    /\ run[r].i > Len(run[r].candidates)
    /\ run' = [run EXCEPT ![r].pc = "done"]
    /\ UNCHANGED <<now, settings, appts, log, runs_started, sends, marked_by, api_calls, req, test_calls, elig, sms, norm>>

-----------------------------------------------------------------------------
(* test_sms: Command.handle *)

TestPhones == { <<"0", "8", "1", "2", "3", "4", "5", "6", "7", "8">> }

\* send_sms is called with the phone given on the command line; nothing is logged.
TestSms(phone, http) ==
    LET result == send_sms(phone, settings, http)
    IN  /\ test_calls < MaxTestSms
        /\ result.ok \in BOOLEAN
        /\ test_calls' = test_calls + 1
        /\ UNCHANGED <<now, settings, appts, log, run, runs_started, sends, marked_by, api_calls, req, elig, sms, norm>>

-----------------------------------------------------------------------------
(* The system.  Reminder runs are invoked one at a time (the scheduler's
   single-run assumption); the clock, the REST API and test_sms go on between the
   steps of a run. *)

RunStep ==
    \/ \E r \in Runs : StartRun(r)
    \/ \E r \in Runs : Fetch(r)
    \/ \E r \in Runs : SkipIneligible(r)
    \/ \E r \in Runs : LogMissingPhone(r)
    \/ \E r \in Runs, http \in HttpOutcomes : SendSms(r, http)
    \/ \E r \in Runs : RecordResult(r)
    \/ \E r \in Runs : Finish(r)

Create ==
    \E p \in Patients, sched \in SchedChoices, st \in CreateStatuses, en \in BOOLEAN :
        ApiCreate(p, sched, st, en)

\* A single booking.
CreateOne ==
    /\ Len(appts) = 0
    /\ Create

Update ==
    \/ \E id \in DOMAIN appts, patch \in Patches : ApiGetObject(id, patch)
    \/ ApiUpdate

Test == \E phone \in TestPhones, http \in HttpOutcomes : TestSms(phone, http)

\* The reminder job on a database that the API fills.
Next == Tick \/ Create \/ RunStep

Spec == Init /\ [][Next]_vars

\* The reminder job while the API also changes the one appointment booked.
NextApi == Tick \/ CreateOne \/ Update \/ RunStep

SpecApi == Init /\ [][NextApi]_vars

\* The reminder job and the test_sms command, on the one appointment booked.
NextOps == Tick \/ CreateOne \/ Test \/ RunStep

SpecOps == Init /\ [][NextOps]_vars

\* The steps of invocations that may overlap.
RunStepOverlap ==
    \/ \E r \in Runs : StartOverlapping(r)
    \/ \E r \in Runs : Fetch(r)
    \/ \E r \in Runs : SkipIneligible(r)
    \/ \E r \in Runs : LogMissingPhone(r)
    \/ \E r \in Runs, http \in HttpOutcomes : SendSms(r, http)
    \/ \E r \in Runs : RecordResult(r)
    \/ \E r \in Runs : Finish(r)

\* Two reminder jobs at once on the one appointment booked.
NextOverlap == Tick \/ CreateOne \/ RunStepOverlap

SpecOverlap == Init /\ [][NextOverlap]_vars

-----------------------------------------------------------------------------
(* is_eligible_for_send called directly, on every pair of an appointment time and
   a "now" among the hours of EligDays consecutive local dates. *)

EligHours == 0..(EligDays * DayLen - 1)

InitElig ==
    /\ now = to_utc(Combine(0, CutoffHour))
    /\ settings = [SMS_MAX_REMINDERS_PER_RUN |-> 1, username |-> TRUE, api_key |-> TRUE]
    /\ appts = <<>>
    /\ log = <<>>
    /\ run = [r \in Runs |-> IdleRun]
    /\ runs_started = 0
    /\ sends = {}
    /\ marked_by = [a \in 1..MaxAppts |-> <<>>]
    /\ api_calls = 0
    /\ req = NoReq
    /\ test_calls = 0
    /\ elig \in { [scheduled_at |-> to_utc(l), now_local |-> n, done |-> FALSE,
                   out |-> Verdict(FALSE, "")] : l \in EligHours, n \in EligHours }
    /\ sms = NoSms
    /\ norm = NoNorm

EvalEligible ==
    /\ ~elig.done
    /\ elig' = [elig EXCEPT !.done = TRUE,
                            !.out = is_eligible_for_send(elig.scheduled_at, elig.now_local)]
    /\ UNCHANGED <<now, settings, appts, log, run, runs_started, sends, marked_by,
                   api_calls, req, test_calls, sms, norm>>

NextElig == EvalEligible

SpecElig == InitElig /\ [][NextElig]_vars

-----------------------------------------------------------------------------
(* send_sms called directly, on every combination of a phone, the provider
   credentials being set or not, and a behaviour of the HTTP call. *)

\* A text of n characters.
Chars(n) == [i \in 1..n |-> "x"]

SmsPhones ==
    { <<>>,
      <<"1", "2">>,
      <<"0", "8", "1", "2", "3", "4", "5", "6", "7", "8">>,
      <<"+", "2", "4", "3", "8", "1", "2", "3", "4", "5", "6", "7", "8">> }

SmsConfs ==
    { [SMS_MAX_REMINDERS_PER_RUN |-> 1, username |-> u, api_key |-> k] : u, k \in BOOLEAN }

SmsTexts == { <<>>, Chars(ShortText), Chars(LongText) }

SmsRecipients ==
    { Unexpected,
      <<>>,
      <<[status |-> "Success", messageId |-> "ATXid_123"]>>,
      <<[status |-> "InvalidPhoneNumber", messageId |-> "None"]>> }

SmsHttp ==
    { HttpRaise(t) : t \in SmsTexts } \cup
    { HttpResponse(code, is_json, recipients, t) :
          code \in {200, 399, 400, 500}, is_json \in BOOLEAN,
          recipients \in SmsRecipients, t \in SmsTexts }

InitSms ==
    /\ now = to_utc(Combine(0, CutoffHour))
    /\ settings = [SMS_MAX_REMINDERS_PER_RUN |-> 1, username |-> TRUE, api_key |-> TRUE]
    /\ appts = <<>>
    /\ log = <<>>
    /\ run = [r \in Runs |-> IdleRun]
    /\ runs_started = 0
    /\ sends = {}
    /\ marked_by = [a \in 1..MaxAppts |-> <<>>]
    /\ api_calls = 0
    /\ req = NoReq
    /\ test_calls = 0
    /\ elig = NoElig
    /\ sms \in { [phone_number |-> p, conf |-> c, http |-> h, done |-> FALSE,
                  out |-> NoResult] : p \in SmsPhones, c \in SmsConfs, h \in SmsHttp }
    /\ norm = NoNorm

CallSendSms ==
    /\ ~sms.done
    /\ sms' = [sms EXCEPT !.done = TRUE,
                          !.out = send_sms(sms.phone_number, sms.conf, sms.http)]
    /\ UNCHANGED <<now, settings, appts, log, run, runs_started, sends, marked_by,
                   api_calls, req, test_calls, elig, norm>>

NextSms == CallSendSms

SpecSms == InitSms /\ [][NextSms]_vars

-----------------------------------------------------------------------------
(* normalize_phone_drc and mask_phone called directly on a stored phone text.
   The text is a head (nothing, the trunk 0, a country code with or without
   its plus, a plus, a doubled plus), a run of digits, one separator put after
   some digit of the run, and a tail; or it is None. *)

DigitRun == <<"1", "2", "3", "4", "5", "6", "7", "8", "9", "0", "1", "2", "3", "4">>

NormFirsts == { <<"8">>, <<"0">>, <<"2", "4", "3">> }

NormBodies == { Prefix(f \o DigitRun, n) : f \in NormFirsts, n \in 0..MaxDigits }

NormHeads ==
    { <<>>, <<"0">>, <<"2", "4", "3">>, <<"+", "2", "4", "3">>, <<"+">>,
      <<"+", "3", "3">>, <<"+", "+", "2", "4", "3">> }

NormSeps == { <<>>, <<" ">>, <<"-">>, <<"+">>, <<"a">> }

NormCuts == {0, 2}

NormTails == { <<>>, <<" ">> }

\* The text s with sep put after its k-th character.
Insert(s, sep, k) == SubSeq(s, 1, k) \o sep \o SubSeq(s, k + 1, Len(s))

NormCall(head, body, sep, at, tail) ==
    [head |-> head, body |-> body, sep |-> sep, at |-> at, tail |-> tail,
     raw |-> head \o Insert(body, sep, at) \o tail,
     normalised |-> FALSE, out |-> None, masked_done |-> FALSE, masked |-> <<>>]

InitNorm ==
    /\ now = to_utc(Combine(0, CutoffHour))
    /\ settings = [SMS_MAX_REMINDERS_PER_RUN |-> 1, username |-> TRUE, api_key |-> TRUE]
    /\ appts = <<>>
    /\ log = <<>>
    /\ run = [r \in Runs |-> IdleRun]
    /\ runs_started = 0
    /\ sends = {}
    /\ marked_by = [a \in 1..MaxAppts |-> <<>>]
    /\ api_calls = 0
    /\ req = NoReq
    /\ test_calls = 0
    /\ elig = NoElig
    /\ sms = NoSms
    /\ \/ norm \in { NormCall(h, b, sep, at, t) :
                         h \in NormHeads, b \in { x \in NormBodies : Len(x) >= 2 },
                         sep \in NormSeps, at \in NormCuts, t \in NormTails }
       \/ norm \in { NormCall(h, b, sep, 0, t) :
                         h \in NormHeads, b \in { x \in NormBodies : Len(x) < 2 },
                         sep \in NormSeps, t \in NormTails }
       \/ norm = [NoNorm EXCEPT !.raw = None]

CallNormalizePhone ==
    /\ ~norm.normalised
    /\ norm' = [norm EXCEPT !.normalised = TRUE, !.out = normalize_phone_drc(norm.raw)]
    /\ UNCHANGED <<now, settings, appts, log, run, runs_started, sends, marked_by,
                   api_calls, req, test_calls, elig, sms>>

CallMaskPhone ==
    /\ ~norm.masked_done
    /\ norm' = [norm EXCEPT !.masked_done = TRUE, !.masked = mask_phone(norm.raw)]
    /\ UNCHANGED <<now, settings, appts, log, run, runs_started, sends, marked_by,
                   api_calls, req, test_calls, elig, sms>>

NextNorm == CallNormalizePhone \/ CallMaskPhone

SpecNorm == InitNorm /\ [][NextNorm]_vars

-----------------------------------------------------------------------------
(* Properties *)

MissingPhoneError == "Patient phone number is missing"

\* The log rows written by invocation e for appointment a.
RowsOf(e, a) == { i \in DOMAIN log : log[i].run = e /\ log[i].appointment = a }

SuccessRows(a) == { i \in DOMAIN log : log[i].appointment = a /\ log[i].status = "SUCCESS" }

\* The invocations that wrote reminder_sent_at of appointment a.
Markers(a) == { marked_by[a][k] : k \in DOMAIN marked_by[a] }

\* C1: whatever the runs (one at a time), their starting times and the gateway's
\* answers, and with no manual reset, no appointment ever has more than one
\* SUCCESS row in the log.
C1_AtMostOneSuccess ==
    \A a \in DOMAIN appts : Cardinality(SuccessRows(a)) <= 1

\* C2: every send a reminder run makes happens, by the clock at the moment of the
\* send, at a local time from 17:00 of the day before the appointment up to, but
\* not including, local midnight entering the appointment's day.
C2_SendsInsideWindow ==
    \A s \in sends :
        LET sent_local == astimezone(s.at)
            appt_date  == DateOf(astimezone(s.scheduled_at))
        IN  /\ Combine(appt_date - 1, CutoffHour) <= sent_local
            /\ sent_local < Combine(appt_date, TimeMin)

\* C3: is_eligible_for_send answers eligible exactly when now_local is in
\* [17:00 of the day before the appointment's local date, the appointment's local
\* time) and on that day before; never on the appointment's own date.
C3_EligibleIffInWindow ==
    elig.done =>
        LET appt_local == astimezone(elig.scheduled_at)
            day_before == DateOf(appt_local) - 1
        IN  /\ elig.out.eligible <=>
                  /\ Combine(day_before, CutoffHour) <= elig.now_local
                  /\ elig.now_local < appt_local
                  /\ DateOf(elig.now_local) = day_before
            /\ DateOf(elig.now_local) = DateOf(appt_local) => ~elig.out.eligible
            /\ (DateOf(elig.now_local) = day_before /\ HourOf(elig.now_local) < CutoffHour)
                  => ~elig.out.eligible

\* C3 witness: a call at exactly 17:00 of the day before, answered eligible.
C3_Witness ==
    /\ elig.done
    /\ elig.out.eligible
    /\ HourOf(elig.now_local) = CutoffHour
    /\ DateOf(elig.now_local) = DateOf(astimezone(elig.scheduled_at)) - 1

\* C4: once a run has set an appointment's reminder_sent_at, no later run calls
\* the gateway for it, writes a log row for it or writes reminder_sent_at again.
C4_LaterRunsLeaveSentAlone ==
    \A a \in DOMAIN appts :
        marked_by[a] # <<>> =>
            /\ Len(marked_by[a]) = 1
            /\ appts[a].reminder_sent_at # NULL
            /\ \A i \in DOMAIN log : log[i].appointment = a => log[i].run <= marked_by[a][1]
            /\ \A s \in sends : s.appt = a => s.run <= marked_by[a][1]

\* C4 witness: a second run has ended after the first run marked an appointment
\* that is still inside its eligibility window.
C4_Witness ==
    \E a \in DOMAIN appts :
        /\ marked_by[a] = <<1>>
        /\ run[1].epoch = 2
        /\ run[1].pc \in {"empty", "done"}
        /\ is_eligible_for_send(appts[a].scheduled_at, run[1].now_local).eligible

\* C5: a run sets reminder_sent_at exactly when the gateway answered ok=true for
\* that appointment in that run; a failed answer leaves one FAILED row and no mark.
C5_MarkedIffGatewayOk ==
    \A i \in DOMAIN log :
        log[i].error_message # MissingPhoneError =>
            /\ log[i].status = "SUCCESS" <=> log[i].run \in Markers(log[i].appointment)
            /\ log[i].status = "FAILED" => log[i].error_message # ""

\* C6: a run whose candidate count exceeds the cap aborts with no gateway call, no
\* log row and no reminder_sent_at written; a count up to the cap is not aborted.
C6_CapAbortsWithoutEffect ==
    \A r \in Runs :
        /\ run[r].pc = "aborted" <=>
              (run[r].epoch # 0 /\ run[r].total_candidates > MaxCapOf(settings))
        /\ run[r].pc = "aborted" =>
              /\ \A i \in DOMAIN log : log[i].run # run[r].epoch
              /\ \A s \in sends : s.run # run[r].epoch
              /\ \A a \in DOMAIN appts : run[r].epoch \notin Markers(a)
              /\ run[r].candidates = <<>>

\* C6 witness: a run aborted on two candidates with a cap of one.
C6_Witness ==
    \E r \in Runs :
        /\ run[r].pc = "aborted"
        /\ run[r].total_candidates = MaxCapOf(settings) + 1

\* C7: nothing that happens while one candidate is processed stops the run.
C7_NoCandidateStopsRun ==
    \A r \in Runs : run[r].pc # "crashed"

\* C8 (as claimed): every call of send_sms that has returned is matched by one log
\* row: the calls made and the rows written for a gateway attempt are equal in number.
C8_EveryCallLogged ==
    test_calls + Cardinality(sends) - Cardinality(Sending)
        = Cardinality({ i \in DOMAIN log : log[i].error_message # MissingPhoneError })

\* C8 (amended): every call of send_sms made by a reminder run is, once it has
\* returned, recorded by exactly one log row, SUCCESS when ok and FAILED otherwise.
C8_EveryRunCallLogged ==
    \A s \in sends :
        \/ \E r \in Sending : run[r].epoch = s.run /\ Current(r).id = s.appt
        \/ /\ Cardinality(RowsOf(s.run, s.appt)) = 1
           /\ \A i \in RowsOf(s.run, s.appt) :
                 log[i].status = (IF s.ok THEN "SUCCESS" ELSE "FAILED")

\* C8 witness: a failed call of a run, returned and logged, beside a test_sms call.
C8_Witness ==
    /\ test_calls > 0
    /\ \E s \in sends : ~s.ok /\ Cardinality(RowsOf(s.run, s.appt)) = 1

\* The candidates a run has finished processing.
Processed(r) ==
    { k \in DOMAIN run[r].candidates : k < run[r].i }

NoPhone(c) == Strip(PatientPhone[c.row.patient]) = <<>>

\* C9: an eligible candidate whose patient's phone is empty or blank gets exactly
\* one FAILED row saying the phone is missing, no gateway call and no
\* reminder_sent_at.
C9_MissingPhoneLoggedNotSent ==
    \A r \in Runs : \A k \in Processed(r) :
        LET c == run[r].candidates[k]
        IN  (NoPhone(c) /\ is_eligible_for_send(c.row.scheduled_at, run[r].now_local).eligible)
            => /\ Cardinality(RowsOf(run[r].epoch, c.id)) = 1
               /\ \A i \in RowsOf(run[r].epoch, c.id) :
                     /\ log[i].status = "FAILED"
                     /\ log[i].error_message = MissingPhoneError
               /\ \A s \in sends : ~(s.run = run[r].epoch /\ s.appt = c.id)
               /\ appts[c.id].reminder_sent_at = NULL

\* C9 witness: a processed eligible candidate whose phone is only blanks.
C9_Witness ==
    \E r \in Runs : \E k \in Processed(r) :
        LET c == run[r].candidates[k]
        IN  /\ PatientPhone[c.row.patient] # <<>>
            /\ NoPhone(c)
            /\ is_eligible_for_send(c.row.scheduled_at, run[r].now_local).eligible

\* C10: an appointment with a FAILED attempt from an earlier run is attempted
\* again by every later run that starts inside its window and is not aborted by
\* the cap: when that run has ended, the log holds a row of it for the appointment.
C10_FailedAttemptRetried ==
    \A r \in Runs :
        run[r].pc \in {"done", "crashed"} =>
            \A k \in DOMAIN run[r].candidates :
                LET c == run[r].candidates[k]
                IN  ( /\ is_eligible_for_send(c.row.scheduled_at, run[r].now_local).eligible
                      /\ \E i \in DOMAIN log :
                            /\ log[i].appointment = c.id
                            /\ log[i].status = "FAILED"
                            /\ log[i].run < run[r].epoch )
                    => RowsOf(run[r].epoch, c.id) # {}

\* The appointments invocation e has called send_sms for or written a log row for.
Touched(e) ==
    { s.appt : s \in { t \in sends : t.run = e } } \cup
    { log[i].appointment : i \in { j \in DOMAIN log : log[j].run = e } }

\* C11: a run calls the gateway or writes a log row for an appointment only if the
\* row its query returned had status CONFIRMED or RESCHEDULED, reminders_enabled
\* true and reminder_sent_at null, and is_eligible_for_send accepted it at the
\* run's "now"; every other appointment gets no send and no row from that run.
C11_OnlyQualifyingAreTouched ==
    \A r \in Runs :
        run[r].epoch # 0 =>
            \A a \in Touched(run[r].epoch) :
                \E k \in DOMAIN run[r].candidates :
                    LET c == run[r].candidates[k]
                    IN  /\ c.id = a
                        /\ c.row.status \in {"CONFIRMED", "RESCHEDULED"}
                        /\ c.row.reminders_enabled = TRUE
                        /\ c.row.reminder_sent_at = NULL
                        /\ is_eligible_for_send(c.row.scheduled_at, run[r].now_local).eligible

\* C11 witness: a run started inside the window of an appointment that is
\* SCHEDULED or CANCELLED has ended, and an earlier run had sent for it.
C11_Witness ==
    \E r \in Runs : \E a \in DOMAIN appts :
        /\ run[r].epoch = 2
        /\ run[r].pc \in {"empty", "done"}
        /\ appts[a].status \in {"SCHEDULED", "CANCELLED"}
        /\ appts[a].reminders_enabled
        /\ appts[a].reminder_sent_at = NULL
        /\ is_eligible_for_send(appts[a].scheduled_at, run[r].now_local).eligible
        /\ a \in Touched(1)

\* C12: whatever the runs and the REST requests, once an appointment's
\* reminder_sent_at is non-null no step changes it or sets it back to null.
C12_SentAtNeverRewritten ==
    [][\A a \in DOMAIN appts :
          appts[a].reminder_sent_at # NULL =>
              appts'[a].reminder_sent_at = appts[a].reminder_sent_at]_vars

\* C13: the log only grows: every step of a reminder run keeps every row that
\* exists, with the same field values, and at most adds rows after them.
C13_LogAppendOnly ==
    [][/\ Len(log') >= Len(log)
       /\ \A i \in DOMAIN log : log'[i] = log[i]]_vars

\* C13 witness: a later run has added a row for an appointment that already had
\* a row from an earlier run.
C13_Witness ==
    \E i, j \in DOMAIN log :
        /\ i < j
        /\ log[i].appointment = log[j].appointment
        /\ log[i].run < log[j].run

\* C14: nothing guards overlapping runs.  Each run sends only to candidates its
\* query saw with reminder_sent_at null, and two SUCCESS rows of one appointment
\* are never from the same run; yet two runs at work together can both have seen
\* the appointment unsent, so two SUCCESS rows for it are reachable (the witness).
C14_SendsOnlyWhereSeenUnsent ==
    /\ \A s \in sends : s.seen_sent_at = NULL
    /\ \A a \in DOMAIN appts : \A i, j \in SuccessRows(a) :
          i # j => log[i].run # log[j].run

\* C14 witness: two runs have each sent a successful reminder to one appointment
\* and each has written its reminder_sent_at.
C14_Witness ==
    \E a \in DOMAIN appts :
        /\ Cardinality(SuccessRows(a)) = 2
        /\ Len(marked_by[a]) = 2
        /\ \E s \in sends : s.appt = a /\ s.ok /\ s.run = 2

\* C15: one run writes at most one log row per appointment: two rows of one
\* appointment are always from different runs.
C15_OneRowPerRunAndAppointment ==
    \A i, j \in DOMAIN log :
        (i # j /\ log[i].appointment = log[j].appointment) => log[i].run # log[j].run

\* C15 witness: an appointment with a FAILED row from one run and a SUCCESS row
\* from a later one, beside another appointment processed by the same later run.
C15_Witness ==
    \E i, j \in DOMAIN log :
        /\ log[i].appointment = log[j].appointment
        /\ log[i].status = "FAILED"
        /\ log[j].status = "SUCCESS"
        /\ log[i].run = 1
        /\ log[j].run = 2
        /\ \E r \in Runs : run[r].epoch = 2 /\ run[r].pc = "done" /\ Len(run[r].candidates) = 2

\* C16: a run that has ended either aborted at the cap check with nothing
\* processed, or processed every candidate its query counted exactly once, each as
\* skipped, sent or failed: candidates = skipped + sent + failed.
C16_TotalsAddUp ==
    \A r \in Runs :
        /\ run[r].pc # "crashed"
        /\ run[r].pc = "done" =>
              run[r].total_candidates
                  = run[r].skipped_count + run[r].sent_count + run[r].failed_count

\* C17: every run that has ended without being aborted by the cap, a run with no
\* candidate included, ended in its summary (the totals were emitted).
C17_UnabortedRunsEmitTotals ==
    \A r \in Runs :
        run[r].pc \in (EndedPcs \ {"idle", "aborted"}) => run[r].pc = "done"

\* C18: send_sms makes the HTTP call exactly when the phone normalises and both
\* the username and the API key are set; otherwise it answers ok=false with a
\* non-empty error and no message id, and makes no call.
C18_PostsOnlyWhenValidAndConfigured ==
    sms.done =>
        /\ sms.out.posted <=>
              /\ normalize_phone_drc(sms.phone_number) # None
              /\ sms.conf.username
              /\ sms.conf.api_key
        /\ ~sms.out.posted =>
              /\ ~sms.out.ok
              /\ sms.out.error # None
              /\ sms.out.error_len > 0
              /\ sms.out.message_id = None

\* C18 witness: a call with a valid phone and a username but no API key, answered
\* "not configured" while the provider would have accepted the message.
C18_Witness ==
    /\ sms.done
    /\ normalize_phone_drc(sms.phone_number) # None
    /\ sms.conf.username
    /\ ~sms.conf.api_key
    /\ ~sms.out.posted
    /\ sms.out.error = "SMS provider not configured"

\* C19: when the HTTP call returns a response, send_sms answers ok=true exactly
\* when the status is below 400, the body is JSON, the recipients list is not
\* empty and its first status is "Success", and message_id is then the provider's
\* messageId; the failures are tested in the order HTTP status, JSON, empty
\* recipients, recipient status, each with its own error text.
C19_ResponseHandling ==
    (sms.done /\ sms.out.posted /\ ~sms.http.raises) =>
        LET h       == sms.http
            http_ok == h.status_code < 400
            listed  == h.recipients # <<>> /\ h.recipients # Unexpected
            success == http_ok /\ h.is_json /\ listed /\ h.recipients[1].status = "Success"
        IN  /\ sms.out.ok <=> success
            /\ success => /\ sms.out.message_id = h.recipients[1].messageId
                          /\ sms.out.error = None
            /\ ~http_ok =>
                  sms.out.error = "HTTP " \o ToString(h.status_code) \o ": "
                                     \o Str(Snippet(h.text))
            /\ (http_ok /\ ~h.is_json) =>
                  sms.out.error = "Invalid JSON from provider: " \o Str(Snippet(h.text))
            /\ (http_ok /\ h.is_json /\ h.recipients = <<>>) =>
                  sms.out.error = "No recipients in provider response"
            /\ (http_ok /\ h.is_json /\ listed /\ h.recipients[1].status # "Success") =>
                  sms.out.error = "Provider status: " \o h.recipients[1].status

\* C19 witness: a 400 answer whose JSON body lists a "Success" recipient is
\* reported as an HTTP error.
C19_Witness ==
    /\ sms.done
    /\ sms.out.posted
    /\ ~sms.http.raises
    /\ sms.http.status_code = 400
    /\ sms.http.is_json
    /\ sms.http.recipients # <<>>
    /\ sms.http.recipients # Unexpected
    /\ sms.http.recipients[1].status = "Success"
    /\ ~sms.out.ok

\* The HTTP call raised, or the parsed body had a shape the code does not expect.
RaisedInTry ==
    \/ sms.http.raises
    \/ /\ ~sms.http.raises
       /\ ~HttpFailed(sms.http.status_code)
       /\ sms.http.is_json
       /\ sms.http.recipients = Unexpected

\* resp.json() raised: the body is not JSON.
RaisedInJson ==
    /\ ~sms.http.raises
    /\ ~HttpFailed(sms.http.status_code)
    /\ ~sms.http.is_json

\* C20 (as claimed): send_sms always returns a result, and an exception of the
\* HTTP call or of interpreting the response becomes ok=false with an error text
\* of at most 200 characters.
C20_ExceptionsBecomeShortErrors ==
    sms.done =>
        /\ sms.out.ok \in BOOLEAN
        /\ (sms.out.posted /\ (RaisedInTry \/ RaisedInJson)) =>
              /\ ~sms.out.ok
              /\ sms.out.error # None
              /\ sms.out.error_len <= SnippetMax

\* C20 (amended): send_sms always returns a result; an exception of the HTTP call
\* or of reading the parsed body becomes ok=false with str(exc) cut to 200
\* characters, and a body that is not JSON becomes ok=false with the 28
\* characters "Invalid JSON from provider: " and at most 200 characters of the body.
C20_ExceptionsBecomeBoundedErrors ==
    sms.done =>
        /\ sms.out.ok \in BOOLEAN
        /\ (sms.out.posted /\ RaisedInTry) =>
              /\ ~sms.out.ok
              /\ sms.out.error # None
              /\ sms.out.error_len <= SnippetMax
        /\ (sms.out.posted /\ RaisedInJson) =>
              /\ ~sms.out.ok
              /\ sms.out.error # None
              /\ sms.out.error_len <= 28 + SnippetMax

\* C20 witness: a long body that is not JSON, reported with an error text longer
\* than 200 characters.
C20_Witness ==
    /\ sms.done
    /\ sms.out.posted
    /\ RaisedInJson
    /\ Len(sms.http.text) > SnippetMax
    /\ sms.out.error_len > SnippetMax

-----------------------------------------------------------------------------
(* Phone normalisation and masking *)

\* normalize_phone_drc returned the text e.
Returned(e) == norm.out # None /\ norm.out = e

\* The texts a subscriber number is written as: trunk form, bare, with the
\* country code, in E.164, each with or without one space or dash inside and
\* with or without a trailing space.
SubscriberForm ==
    /\ norm.raw # None
    /\ Len(norm.body) = 9
    /\ norm.head \in { <<"0">>, <<>>, <<"2", "4", "3">>, <<"+", "2", "4", "3">> }
    /\ norm.sep \in { <<>>, <<" ">>, <<"-">> }

DigitCount(s) == Len(SelectSeq(s, LAMBDA c : c \in Digits))

\* C22: normalize_phone_drc returns a value on every input, and returns None
\* for None, for the empty text, for every text without a digit and for every
\* text with fewer than 8 digits.
C22_TooShortIsNone ==
    (norm.normalised /\ (norm.raw = None \/ DigitCount(norm.raw) < 8)) => norm.out = None

C22_Witness ==
    /\ norm.normalised
    /\ norm.raw # None
    /\ norm.head = <<"+", "2", "4", "3">>
    /\ DigitCount(norm.raw) = 7
    /\ norm.out = None

\* Two results of normalize_phone_drc are the same text, or both None.
SameResult(a, b) == IF a = None THEN b = None ELSE (b # None /\ a = b)

\* The separator of the text is a '+' that is not the first character.
InnerPlus == norm.sep = <<"+">> /\ Len(norm.head) + norm.at >= 1

\* C23: normalisation discards every character other than digits and one
\* leading '+': a text with a separator (a space, a dash, a letter, or a '+'
\* after the first character) normalises to what the text without the
\* separator normalises to.
C23_InnerPlusIsStripped ==
    (norm.normalised /\ norm.raw # None /\ (norm.sep = <<"+">> => InnerPlus)) =>
        SameResult(norm.out, normalize_phone_drc(norm.head \o norm.body \o norm.tail))

\* The text of the call after lines 45-48: stripped, then without the
\* characters that are neither digits nor '+'.
Stripped == DigitsOnlySub(Strip(norm.raw))

\* The stripped text starts with the country code, with or without its '+'.
HasCountryCode ==
    /\ norm.raw # None
    /\ \/ StartsWith(Stripped, <<"2", "4", "3">>)
       \/ StartsWith(Stripped, DRC_COUNTRY_CODE)

\* The text s with a leading '+' ensured.
EnsurePlus(s) == IF StartsWith(s, <<"+">>) THEN s ELSE <<"+">> \o s

\* C24 as stated: a text that after stripping starts with 243 or +243 is
\* normalised only by ensuring one leading '+', whatever its length: the result
\* is None or the stripped text with one leading '+'.
C24_CountryCodeNeverPrependedTwice ==
    (norm.normalised /\ HasCountryCode) =>
        (norm.out = None \/ Returned(EnsurePlus(Stripped)))

\* C24: a text that after stripping starts with +243, or starts with 243 and
\* has at least 12 or at most 8 characters, is normalised only by ensuring one
\* leading '+'; a text that starts with 243 and has 9 to 11 characters is taken
\* for a bare subscriber number and gets +243 prepended.
C24_CountryCodeRecognisedFromTwelve ==
    (norm.normalised /\ HasCountryCode) =>
        \/ norm.out = None
        \/ IF \/ StartsWith(Stripped, DRC_COUNTRY_CODE)
              \/ Len(Stripped) >= 12
              \/ Len(Stripped) < 9
             THEN Returned(EnsurePlus(Stripped))
             ELSE Returned(DRC_COUNTRY_CODE \o Stripped)

C24_Witness ==
    /\ norm.normalised
    /\ HasCountryCode
    /\ norm.raw = <<"2", "4", "3", "8", "1", "2", "3", "4", "5">>
    /\ Returned(<<"+", "2", "4", "3", "2", "4", "3", "8", "1", "2", "3", "4", "5">>)

\* C25: mask_phone returns "***" for a text of at most 7 characters, the empty
\* text included; for a longer text it keeps the first 5 and the last 3
\* characters and puts at least one "*" between them, so that what it returns
\* is never the whole text.
C25_MaskHidesSomething ==
    (norm.masked_done /\ norm.raw # None) =>
        IF Len(norm.raw) <= 7
          THEN norm.masked = <<"*", "*", "*">>
          ELSE /\ Prefix(norm.masked, 5) = Prefix(norm.raw, 5)
               /\ Suffix(norm.masked, 3) = Suffix(norm.raw, 3)
               /\ \E i \in 6..(Len(norm.masked) - 3) : norm.masked[i] = "*"
               /\ norm.masked # norm.raw

-----------------------------------------------------------------------------
(* Eligibility, log and marker *)

\* C26: called at a "now" whose date is earlier than the day before the
\* appointment, is_eligible_for_send answers ineligible with the reason "not the
\* day before appointment", the only reason that contains "not the day before".
C26_EarlierDatesAreNotTheDayBefore ==
    (elig.done /\ DateOf(elig.now_local) < DateOf(astimezone(elig.scheduled_at)) - 1) =>
        /\ ~elig.out.eligible
        /\ elig.out.reason = "not the day before appointment"

\* C27: whenever no run is in progress (every run has ended, normally or by an
\* error), an appointment has a SUCCESS row in the log exactly when its
\* reminder_sent_at is set.
C27_LogAndMarkerAgree ==
    (\A r \in Runs : run[r].pc \in EndedPcs) =>
        \A a \in DOMAIN appts :
            SuccessRows(a) # {} <=> appts[a].reminder_sent_at # NULL

\* C28: a REST update of scheduled_at, status or reminders_enabled leaves
\* reminder_sent_at as it is: an appointment whose reminder_sent_at a run has
\* written keeps it non-null, and no later run has it among its candidates.
C28_UpdatesKeepSentAt ==
    \A a \in DOMAIN appts :
        marked_by[a] # <<>> =>
            /\ appts[a].reminder_sent_at # NULL
            /\ \A r \in Runs :
                   \A k \in DOMAIN run[r].candidates :
                       run[r].candidates[k].id = a =>
                           \A e \in Markers(a) : run[r].epoch <= e

\* An appointment at scheduled_at that passes the status, flag and marker
\* filters of the candidate query.
FilterPassing(scheduled_at) ==
    [scheduled_at |-> scheduled_at, status |-> "CONFIRMED", patient |-> "alice",
     reminders_enabled |-> TRUE, reminder_sent_at |-> NULL]

\* C29: every appointment that passes the status and flag filters and that
\* is_eligible_for_send accepts at a "now" is matched by the candidate query of a
\* run at that "now": its scheduled time is inside the query's window.
C29_WindowCoversEligible ==
    (elig.done /\ elig.out.eligible) =>
        Matches(FilterPassing(elig.scheduled_at), elig.now_local)

\* C29 witness: an accepted appointment at the first instant of the window,
\* 00:00 local of tomorrow.
C29_Witness ==
    /\ elig.done
    /\ elig.out.eligible
    /\ HourOf(astimezone(elig.scheduled_at)) = TimeMin
    /\ Matches(FilterPassing(elig.scheduled_at), elig.now_local)

\* C30: every text normalize_phone_drc returns begins with the DRC country
\* code +243.
C30_ResultsAreCongolese ==
    (norm.normalised /\ norm.out # None) => StartsWith(norm.out, DRC_COUNTRY_CODE)

====
